---------------------------- MODULE Spec2Model ----------------------------
(***************************************************************************)
(* A model of src/rcu/list_rcu.c: a library of books kept on an RCU        *)
(* protected doubly linked list (my_library.books), written under          *)
(* my_library.lock and read inside rcu_read_lock()/rcu_read_unlock().      *)
(*                                                                         *)
(* Steps.  A step is one access to shared state together with the local   *)
(* statements around it.  Three pairs of statements are one step because   *)
(* no other thread can tell them apart: a list primitive and the           *)
(* spin_unlock after it (only lock holders write the list, readers do not  *)
(* look at the lock), update_book's rcu_read_unlock and the call_rcu or    *)
(* synchronize_rcu after it, and synchronize_rcu's return and the kfree    *)
(* after it.  delete_book's loop runs under the lock and is one step with  *)
(* its list_del_rcu.  kzalloc is taken not to end the caller's reading     *)
(* region.                                                                 *)
(*                                                                         *)
(* The list is modelled pointer by pointer (next and prev of the head and  *)
(* of every struct book), with the list primitives of <linux/rculist.h>    *)
(* as they are written there.  Threads call add_book, update_book,         *)
(* delete_book, book_is_borrow and print_book concurrently; every          *)
(* statement that touches shared memory, the lock or the reading region is *)
(* one step.  The grace-period primitives are modelled by their contract:  *)
(* synchronize_rcu() returns, and a call_rcu() callback runs, only after   *)
(* every reading region that was open when it was called has closed.       *)
(*                                                                         *)
(* list_replace_rcu() and list_del_rcu() on a node that was already        *)
(* unlinked store through LIST_POISON2.  What that store does depends on   *)
(* the build: it faults (the thread stops where it is, an oops), or it     *)
(* lands in memory that is not part of the library and the function goes   *)
(* on.  Both outcomes are in the model.  A kfree()d book keeps its handle  *)
(* (memory is not handed out again); a traversal that reads it sees the    *)
(* stale content or faults, a read of its borrow field yields the stale    *)
(* value or garbage.                                                       *)
(*                                                                         *)
(* Three specifications.  Spec starts from the empty library of            *)
(* list_rcu_init.  FairSpec is Spec with the scheduling the kernel gives:  *)
(* a thread inside a call that can run does run, and so does a callback    *)
(* whose grace period is over.  StockedSpec starts from the library        *)
(* test_example has stocked with its two add_book calls, so that races on  *)
(* a list of two books fit within MaxWrites.                               *)
(***************************************************************************)
EXTENDS Integers, Sequences, FiniteSets

\* ------------------------------------------------------------------ bounds
\* Calls of add_book, update_book and delete_book made in one behaviour, over
\* all threads (calls of book_is_borrow and print_book are not limited).  A
\* call allocates at most one struct book, so this also bounds the heap
\* (together with the books the library is stocked with).
MaxWrites == 3

Procs == {1, 2}
Ids == {0, 1}
Names == {"A journey of linux kernel"}
Authors == {"Tom Hoter"}

\* ------------------------------------------------------------- C constants
ListHead == 0            \* &my_library.books
NULL == -1
LIST_POISON2 == -2
EINVAL == 22
ENOMEM == 12

\* The ids of the books test_example adds first (lines 173-174), in order.
Stock == <<0, 1>>

Recs == 1..(MaxWrites + Len(Stock))
Nodes == {ListHead} \cup Recs
Garbage == 99            \* a value no book was ever given

VARIABLES
  next, prev,            \* struct list_head of the head and of each book
  id, name, author, borrow,   \* the fields of each struct book
  nalloc,                \* books handed out by kzalloc so far
  lock,                  \* my_library.lock: 0, or the thread holding it
  reading,               \* reading[p]: p is between rcu_read_lock and unlock
  pc, arg,               \* where each thread is, and the call it is in
  b, old_b, new_b,       \* the locals of the function a thread is in
  ret, printed,          \* the value returned, and print_book's pr_info line
  syncWait,              \* synchronize_rcu: regions still to close
  cbs,                   \* call_rcu: callbacks queued, with regions to close
  handed, kfreed,        \* per book: times given to the reclaimer / kfree()d
  retired, graceOwed,    \* per book: unlinked, and regions open at that time
  fx,                    \* what the call in progress did to shared state
  path,                  \* the return statement a finished call left through
  solo,                  \* a thread running insert; update; status query alone
  there,                 \* the id a reader asks for was published when its
                         \* region opened and no delete has unlinked it since
  nwrites

vars == <<next, prev, id, name, author, borrow, nalloc, lock, reading, pc, arg,
          b, old_b, new_b, ret, printed, syncWait, cbs, handed, kfreed,
          retired, graceOwed, fx, path, solo, there, nwrites>>

listv == <<next, prev>>
bookv == <<id, name, author, borrow, nalloc>>
rcuv == <<reading, syncWait, cbs, graceOwed>>
localv == <<b, old_b, new_b>>
histv == <<handed, kfreed, retired>>

NoSolo == [who |-> 0, stage |-> 0, id |-> 0, s |-> 0]

NoArg == [op |-> "none", id |-> 0, async |-> 0, borrow |-> 0, name |-> "", author |-> ""]

Init ==
  /\ next = [n \in Nodes |-> IF n = ListHead THEN ListHead ELSE NULL]
  /\ prev = [n \in Nodes |-> IF n = ListHead THEN ListHead ELSE NULL]
  /\ id = [r \in Recs |-> 0]
  /\ name = [r \in Recs |-> ""]
  /\ author = [r \in Recs |-> ""]
  /\ borrow = [r \in Recs |-> 0]
  /\ nalloc = 0
  /\ lock = 0
  /\ reading = [p \in Procs |-> FALSE]
  /\ pc = [p \in Procs |-> "idle"]
  /\ arg = [p \in Procs |-> NoArg]
  /\ b = [p \in Procs |-> NULL]
  /\ old_b = [p \in Procs |-> NULL]
  /\ new_b = [p \in Procs |-> NULL]
  /\ ret = [p \in Procs |-> 0]
  /\ printed = [p \in Procs |-> <<>>]
  /\ syncWait = [p \in Procs |-> {}]
  /\ cbs = {}
  /\ handed = [r \in Recs |-> 0]
  /\ kfreed = [r \in Recs |-> 0]
  /\ retired = [r \in Recs |-> FALSE]
  /\ graceOwed = [r \in Recs |-> {}]
  /\ fx = [p \in Procs |-> {}]
  /\ path = [p \in Procs |-> "none"]
  /\ solo = NoSolo
  /\ there = [p \in Procs |-> FALSE]
  /\ nwrites = 0

\* The library after test_example's two add_book calls: book 1 with id 0 and
\* book 2 with id 1, the younger one first, both not borrowed out.
StockedInit ==
  /\ next = [n \in Nodes |->
               CASE n = ListHead -> 2 [] n = 2 -> 1 [] n = 1 -> ListHead
                 [] OTHER -> NULL]
  /\ prev = [n \in Nodes |->
               CASE n = ListHead -> 1 [] n = 1 -> 2 [] n = 2 -> ListHead
                 [] OTHER -> NULL]
  /\ id = [r \in Recs |-> IF r <= Len(Stock) THEN Stock[r] ELSE 0]
  /\ \E n \in Names :
       name = [r \in Recs |-> IF r <= Len(Stock) THEN n ELSE ""]
  /\ \E a \in Authors :
       author = [r \in Recs |-> IF r <= Len(Stock) THEN a ELSE ""]
  /\ borrow = [r \in Recs |-> IF r <= Len(Stock) THEN 1 ELSE 0]
  /\ nalloc = Len(Stock)
  /\ lock = 0
  /\ reading = [p \in Procs |-> FALSE]
  /\ pc = [p \in Procs |-> "idle"]
  /\ arg = [p \in Procs |-> NoArg]
  /\ b = [p \in Procs |-> NULL]
  /\ old_b = [p \in Procs |-> NULL]
  /\ new_b = [p \in Procs |-> NULL]
  /\ ret = [p \in Procs |-> 0]
  /\ printed = [p \in Procs |-> <<>>]
  /\ syncWait = [p \in Procs |-> {}]
  /\ cbs = {}
  /\ handed = [r \in Recs |-> 0]
  /\ kfreed = [r \in Recs |-> 0]
  /\ retired = [r \in Recs |-> FALSE]
  /\ graceOwed = [r \in Recs |-> {}]
  /\ fx = [p \in Procs |-> {}]
  /\ path = [p \in Procs |-> "none"]
  /\ solo = NoSolo
  /\ there = [p \in Procs |-> FALSE]
  /\ nwrites = 0

\* ------------------------------------------------------------ the list
RECURSIVE Walk(_, _)
Walk(n, fuel) ==
  IF n \notin Recs \/ fuel = 0 THEN <<>> ELSE <<n>> \o Walk(next[n], fuel - 1)

\* The books a traversal from the head visits, in order.
Order == Walk(next[ListHead], MaxWrites + Len(Stock))

Published == {Order[i] : i \in 1..Len(Order)}

\* The regions open now.
Readers == {q \in Procs : reading[q]}

\* list_for_each_entry_rcu's first match, as delete_book's loop finds it.
FirstMatch(i) ==
  LET hits == {k \in 1..Len(Order) : id[Order[k]] = i}
  IN IF hits = {} THEN NULL
     ELSE Order[CHOOSE k \in hits : \A j \in hits : k <= j]

WriterOps == {"add", "update", "delete"}

\* A call enters a function: the arguments are bound.
Enter(p, a) ==
  /\ pc[p] = "idle"
  /\ IF a.op \in WriterOps
       THEN nwrites < MaxWrites /\ nwrites' = nwrites + 1
       ELSE nwrites' = nwrites
  /\ arg' = [arg EXCEPT ![p] = a]

\* The call p is in after this step.
ArgNow(p) == IF pc[p] = "idle" THEN arg'[p] ELSE arg[p]

\* Book-keeping for the sequence insert(id); update(id, s); status query(id)
\* run by one thread while no other thread takes a step of a writer:
\* stage 1 after the insert, 2 inside the update, 3 after it, 4 inside the
\* query, 5 when the query has returned.  `label` is where p goes ("ret" with
\* the return statement `how`).
SoloStep(p, label, how) ==
  LET a == ArgNow(p)
      entering == pc[p] = "idle"
  IN IF solo.who = p
       THEN CASE solo.stage = 1 ->
                   IF entering /\ a.op = "update" /\ a.id = solo.id
                     THEN [solo EXCEPT !.stage = 2, !.s = a.borrow]
                   ELSE NoSolo
              [] solo.stage = 2 ->
                   IF label = "ret"
                     THEN IF how \in {"upd_ok", "upd_noop"}
                            THEN [solo EXCEPT !.stage = 3] ELSE NoSolo
                   ELSE IF label = "oops" THEN NoSolo ELSE solo
              [] solo.stage = 3 ->
                   IF entering /\ a.op = "is_borrow" /\ a.id = solo.id
                     THEN [solo EXCEPT !.stage = 4]
                   ELSE NoSolo
              [] solo.stage = 4 ->
                   IF label \in {"ret", "oops"}
                     THEN [solo EXCEPT !.stage = 5] ELSE solo
              [] OTHER -> NoSolo
     ELSE IF a.op \in WriterOps
       THEN IF label = "ret" /\ how = "add_ok"
              THEN [who |-> p, stage |-> 1, id |-> a.id, s |-> 0]
            ELSE NoSolo
     ELSE solo

Goto(p, label) ==
  /\ pc' = [pc EXCEPT ![p] = label]
  /\ solo' = SoloStep(p, label, "none")

\* A return statement: `how` names it.
Return(p, v, how) ==
  /\ pc' = [pc EXCEPT ![p] = "ret"]
  /\ solo' = SoloStep(p, "ret", how)
  /\ ret' = [ret EXCEPT ![p] = v]
  /\ path' = [path EXCEPT ![p] = how]
  /\ b' = [b EXCEPT ![p] = NULL]
  /\ old_b' = [old_b EXCEPT ![p] = NULL]
  /\ new_b' = [new_b EXCEPT ![p] = NULL]

\* The caller takes the result; the frame is gone.
Leave(p) ==
  /\ pc[p] = "ret"
  /\ pc' = [pc EXCEPT ![p] = "idle"]
  /\ arg' = [arg EXCEPT ![p] = NoArg]
  /\ ret' = [ret EXCEPT ![p] = 0]
  /\ path' = [path EXCEPT ![p] = "none"]
  /\ fx' = [fx EXCEPT ![p] = {}]
  /\ printed' = [printed EXCEPT ![p] = <<>>]
  /\ solo' = IF solo.who = p /\ solo.stage = 5 THEN NoSolo ELSE solo
  /\ there' = [there EXCEPT ![p] = FALSE]
  /\ UNCHANGED <<next, prev, id, name, author, borrow, nalloc, lock, reading,
                 syncWait, cbs, graceOwed, b, old_b, new_b, handed, kfreed,
                 retired, nwrites>>

\* The call of p did these things to shared state.
Did(p, S) == fx' = [fx EXCEPT ![p] = @ \cup S]

\* rcu_read_unlock by p: every grace period waiting for p's region is told.
RcuReadUnlock(p) ==
  /\ reading' = [reading EXCEPT ![p] = FALSE]
  /\ syncWait' = [q \in Procs |-> syncWait[q] \ {p}]
  /\ cbs' = {[c EXCEPT !.wait = @ \ {p}] : c \in cbs}
  /\ graceOwed' = [r \in Recs |-> graceOwed[r] \ {p}]

\* The book r leaves the traversal order (first time only: the regions open
\* now are the ones that may still hold it).
Retire(r) ==
  /\ retired' = [retired EXCEPT ![r] = TRUE]
  /\ graceOwed' = IF retired[r] THEN graceOwed
                  ELSE [graceOwed EXCEPT ![r] = Readers]

\* ------------------------------------------ <linux/rculist.h>, as written
\* list_add_tail_rcu in place of list_add_rcu: new goes right before the head.
ListAddTailRcu(new) ==
  LET last == prev[ListHead]
  IN [nx |-> [next EXCEPT ![new] = ListHead, ![last] = new],
      pv |-> [prev EXCEPT ![new] = last, ![ListHead] = new]]

\* list_add_rcu(new, &my_library.books): new goes right after the head.
ListAddRcu(new) ==
  LET first == next[ListHead]
  IN [nx |-> [next EXCEPT ![new] = first, ![ListHead] = new],
      pv |-> [prev EXCEPT ![new] = ListHead, ![first] = new]]

\* list_replace_rcu(old, new):
\*   new->next = old->next; new->prev = old->prev;
\*   rcu_assign_pointer(new->prev->next, new);
\*   new->next->prev = new; old->prev = LIST_POISON2;
\* When old->prev is LIST_POISON2 the third store goes through the poison
\* pointer: it faults (the later stores never happen) or, with goOn, it
\* lands outside the library and the rest is executed.
ListReplaceRcu(old, new, goOn) ==
  LET nx == next[old]
      pv == prev[old]
      n1 == [next EXCEPT ![new] = nx]
      p1 == [prev EXCEPT ![new] = pv]
  IN IF pv \in Nodes
       THEN [nx |-> [n1 EXCEPT ![pv] = new],
             pv |-> [p1 EXCEPT ![nx] = new, ![old] = LIST_POISON2],
             fault |-> FALSE]
     ELSE IF goOn
       THEN [nx |-> n1,
             pv |-> [p1 EXCEPT ![nx] = new, ![old] = LIST_POISON2],
             fault |-> FALSE]
     ELSE [nx |-> n1, pv |-> p1, fault |-> TRUE]

\* list_del_rcu(entry):
\*   next->prev = prev; WRITE_ONCE(prev->next, next);
\*   entry->prev = LIST_POISON2;
ListDelRcu(entry, goOn) ==
  LET nx == next[entry]
      pv == prev[entry]
      p1 == [prev EXCEPT ![nx] = pv]
  IN IF pv \in Nodes
       THEN [nx |-> [next EXCEPT ![pv] = nx],
             pv |-> [p1 EXCEPT ![entry] = LIST_POISON2],
             fault |-> FALSE]
     ELSE IF goOn
       THEN [nx |-> next,
             pv |-> [p1 EXCEPT ![entry] = LIST_POISON2],
             fault |-> FALSE]
     ELSE [nx |-> next, pv |-> p1, fault |-> TRUE]

\* What the store through a node's prev pointer can do.
StoreOutcomes(n) == IF prev[n] \in Nodes THEN {TRUE} ELSE {TRUE, FALSE}

\* What reading the books in S can do: a freed book may fault.
ReadOutcomes(S) ==
  IF \E r \in S \cap Recs : kfreed[r] > 0 THEN {"read", "fault"} ELSE {"read"}

\* The value a read of r->borrow yields.
ReadBorrow(r) == IF kfreed[r] > 0 THEN {borrow[r], Garbage} ELSE {borrow[r]}

\* ------------------------------------------------- the grace-period detector
\* kfree(r)
Kfree(r) == kfreed' = [kfreed EXCEPT ![r] = @ + 1]

\* The regions a grace period that starts now has to see closed.
GraceSet(p) == Readers \ {p}

\* call_rcu(&r->rcu, book_reclaim_callback)
CallRcu(p, r) ==
  /\ handed' = [handed EXCEPT ![r] = @ + 1]
  /\ cbs' = cbs \cup {[rec |-> r, wait |-> GraceSet(p), k |-> handed[r] + 1]}

\* A grace period that waits for no region.
GraceOverAtOnce(W) == TRUE

\* synchronize_rcu() may return.
GraceOver(W) == W = {}

\* book_reclaim_callback, run by the RCU core once the grace period is over.
BookReclaimCallback ==
  \E c \in cbs :
    /\ GraceOver(c.wait)
    /\ cbs' = cbs \ {c}
    /\ Kfree(c.rec)
    /\ UNCHANGED <<listv, bookv, lock, reading, syncWait, graceOwed, pc, arg,
                   localv, ret, printed, handed, retired, fx, path, solo,
                   nwrites, there>>

\* ---------------------------------------------------------------- add_book
\* The fields add_book gives a new book (lines 43-46).
NewBookBorrow == 1

\* kzalloc succeeds; the book is filled in while still private.
AddKzalloc(p) ==
  \E i \in Ids, n \in Names, a \in Authors :
    /\ Enter(p, [NoArg EXCEPT !.op = "add", !.id = i, !.name = n, !.author = a])
    /\ nalloc' = nalloc + 1
    /\ new_b' = [new_b EXCEPT ![p] = nalloc + 1]
    /\ id' = [id EXCEPT ![nalloc + 1] = i]
    /\ name' = [name EXCEPT ![nalloc + 1] = n]
    /\ author' = [author EXCEPT ![nalloc + 1] = a]
    /\ borrow' = [borrow EXCEPT ![nalloc + 1] = NewBookBorrow]
    /\ fx' = [fx EXCEPT ![p] = {"alloc"}]
    /\ Goto(p, "add_lock")
    /\ UNCHANGED <<listv, lock, rcuv, b, old_b, ret, printed, histv, path,
                   there>>

\* kzalloc fails: return -ENOMEM (lines 38-41).
AddKzallocFail(p) ==
  \E i \in Ids, n \in Names, a \in Authors :
    /\ Enter(p, [NoArg EXCEPT !.op = "add", !.id = i, !.name = n, !.author = a])
    /\ fx' = [fx EXCEPT ![p] = {}]
    /\ Return(p, -ENOMEM, "add_enomem")
    /\ UNCHANGED <<listv, bookv, lock, rcuv, printed, histv, there>>

\* A lock that is taken without waiting for its holder.
SpinLockNoWait(p) == lock' = p

SpinLock(p) == lock = 0 /\ lock' = p
SpinUnlock(p) == lock' = 0

AddSpinLock(p) ==
  /\ pc[p] = "add_lock"
  /\ SpinLock(p)
  /\ Goto(p, "add_link")
  /\ UNCHANGED <<listv, bookv, rcuv, arg, localv, ret, printed, histv, fx,
                 path, nwrites, there>>

\* list_add_rcu; spin_unlock; return 0 (lines 50-53)
AddListAddRcu(p) ==
  /\ pc[p] = "add_link"
  /\ LET l == ListAddRcu(new_b[p]) IN next' = l.nx /\ prev' = l.pv
  /\ SpinUnlock(p)
  /\ Did(p, {"link"})
  /\ Return(p, 0, "add_ok")
  /\ UNCHANGED <<bookv, rcuv, arg, printed, histv, nwrites, there>>

\* ------------------------------------------------ list_for_each_entry_rcu
\* One turn of the loop of a reader whose cursor is at node `at` (the head
\* before the first turn): the entry after it.
NextEntry(at) == next[at]

\* ------------------------------------------------------------- update_book
UpdateArgs == {[NoArg EXCEPT !.op = "update", !.id = i, !.async = a, !.borrow = s] :
                 i \in Ids, a \in {0, 1}, s \in {0, 1}}

\* rcu_read_lock (line 62)
UpdRcuReadLock(p) ==
  \E a \in UpdateArgs :
    /\ Enter(p, a)
    /\ reading' = [reading EXCEPT ![p] = TRUE]
    /\ b' = [b EXCEPT ![p] = ListHead]
    /\ fx' = [fx EXCEPT ![p] = {}]
    /\ Goto(p, "upd_scan")
    /\ UNCHANGED <<listv, bookv, lock, syncWait, cbs, graceOwed, old_b, new_b,
                   ret, printed, histv, path, there>>

\* The loop goes on to an entry with another id (lines 63-64).
UpdScan(p) ==
  /\ pc[p] = "upd_scan"
  /\ LET e == NextEntry(b[p])
     IN /\ e \in Recs
        /\ \E o \in ReadOutcomes({b[p], e}) :
             \/ o = "read" /\ id[e] # arg[p].id
                  /\ b' = [b EXCEPT ![p] = e] /\ Goto(p, pc[p])
             \/ o = "fault" /\ Goto(p, "oops") /\ UNCHANGED b
  /\ UNCHANGED <<listv, bookv, lock, rcuv, arg, old_b, new_b, ret, printed,
                 histv, fx, path, nwrites, there>>

\* The loop ends at the head: no such book (lines 70-74).
UpdNotFound(p) ==
  /\ pc[p] = "upd_scan"
  /\ NextEntry(b[p]) = ListHead
  /\ RcuReadUnlock(p)
  /\ Return(p, -EINVAL, "upd_notfound")
  /\ UNCHANGED <<listv, bookv, lock, arg, printed, histv, fx, nwrites, there>>

\* update_book allocating the copy before it compares the states.
UpdNoOpAfterKzalloc(p) ==
  /\ pc[p] = "upd_scan"
  /\ LET e == NextEntry(b[p])
     IN e \in Recs /\ id[e] = arg[p].id /\ borrow[e] = arg[p].borrow
  /\ nalloc' = nalloc + 1
  /\ Did(p, {"alloc"})
  /\ RcuReadUnlock(p)
  /\ Return(p, -EINVAL, "upd_noop")
  /\ UNCHANGED <<listv, id, name, author, borrow, lock, arg, printed, histv,
                 nwrites, there>>

\* The book is found and is already in the state asked for (lines 76-80).
UpdNoOp(p) ==
  /\ pc[p] = "upd_scan"
  /\ LET e == NextEntry(b[p])
     IN e \in Recs /\ id[e] = arg[p].id /\ borrow[e] = arg[p].borrow
  /\ RcuReadUnlock(p)
  /\ Return(p, -EINVAL, "upd_noop")
  /\ UNCHANGED <<listv, bookv, lock, arg, printed, histv, fx, nwrites, there>>

\* The book is found and is to change (lines 64-66, 70, 76).
UpdFound(p) ==
  /\ pc[p] = "upd_scan"
  /\ LET e == NextEntry(b[p])
     IN /\ e \in Recs /\ id[e] = arg[p].id /\ borrow[e] # arg[p].borrow
        /\ b' = [b EXCEPT ![p] = e]
        /\ old_b' = [old_b EXCEPT ![p] = e]
  /\ Goto(p, "upd_alloc")
  /\ UNCHANGED <<listv, bookv, lock, rcuv, arg, new_b, ret, printed, histv,
                 fx, path, nwrites, there>>

\* The copy without line 90.
CopyOfUnchanged(old, s) ==
  [id |-> id[old], name |-> name[old], author |-> author[old],
   borrow |-> borrow[old], nx |-> next[old], pv |-> prev[old]]

\* memcpy(new_b, old_b, sizeof(*old_b)); new_b->borrow = borrow (lines 89-90):
\* the fields of the copy.
CopyOf(old, s) ==
  [id |-> id[old], name |-> name[old], author |-> author[old], borrow |-> s,
   nx |-> next[old], pv |-> prev[old]]

\* kzalloc succeeds (line 82), and the copy is made.
UpdKzalloc(p) ==
  /\ pc[p] = "upd_alloc"
  /\ LET n == nalloc + 1
         c == CopyOf(old_b[p], arg[p].borrow)
     IN /\ nalloc' = n
        /\ new_b' = [new_b EXCEPT ![p] = n]
        /\ id' = [id EXCEPT ![n] = c.id]
        /\ name' = [name EXCEPT ![n] = c.name]
        /\ author' = [author EXCEPT ![n] = c.author]
        /\ borrow' = [borrow EXCEPT ![n] = c.borrow]
        /\ next' = [next EXCEPT ![n] = c.nx]
        /\ prev' = [prev EXCEPT ![n] = c.pv]
  /\ Did(p, {"alloc"})
  /\ Goto(p, "upd_lock")
  /\ UNCHANGED <<lock, rcuv, arg, b, old_b, ret, printed, histv, path, nwrites,
                 there>>

\* The -ENOMEM path without its rcu_read_unlock.
UpdKzallocFailNoUnlock(p) ==
  /\ pc[p] = "upd_alloc"
  /\ Return(p, -ENOMEM, "upd_enomem")
  /\ UNCHANGED <<listv, bookv, lock, rcuv, arg, printed, histv, fx, nwrites,
                 there>>

\* kzalloc fails (lines 83-87).
UpdKzallocFail(p) ==
  /\ pc[p] = "upd_alloc"
  /\ RcuReadUnlock(p)
  /\ Return(p, -ENOMEM, "upd_enomem")
  /\ UNCHANGED <<listv, bookv, lock, arg, printed, histv, fx, nwrites, there>>

\* spin_lock (line 92)
UpdSpinLock(p) ==
  /\ pc[p] = "upd_lock"
  /\ SpinLock(p)
  /\ Goto(p, "upd_replace")
  /\ UNCHANGED <<listv, bookv, rcuv, arg, localv, ret, printed, histv, fx,
                 path, nwrites, there>>

\* list_replace_rcu(&old_b->node, &new_b->node); spin_unlock (lines 93-94)
UpdListReplaceRcu(p) ==
  /\ pc[p] = "upd_replace"
  /\ \E goOn \in StoreOutcomes(old_b[p]) :
       LET l == ListReplaceRcu(old_b[p], new_b[p], goOn)
       IN /\ next' = l.nx
          /\ prev' = l.pv
          /\ IF l.fault
               THEN /\ Goto(p, "oops")
                    /\ UNCHANGED <<lock, retired, graceOwed, fx>>
               ELSE /\ Goto(p, "upd_reclaim")
                    /\ SpinUnlock(p)
                    /\ Retire(old_b[p])
                    /\ Did(p, {"link", "retire"})
  /\ UNCHANGED <<bookv, reading, syncWait, cbs, arg, localv, ret,
                 printed, handed, kfreed, path, nwrites, there>>

\* pr_info reads old_b->borrow; rcu_read_unlock;
\* call_rcu(&old_b->rcu, book_reclaim_callback); return 0
\* (lines 96-102, 107)
UpdCallRcu(p) ==
  /\ pc[p] = "upd_reclaim"
  /\ arg[p].async # 0
  /\ reading' = [reading EXCEPT ![p] = FALSE]
  /\ syncWait' = [q \in Procs |-> syncWait[q] \ {p}]
  /\ graceOwed' = [r \in Recs |-> graceOwed[r] \ {p}]
  /\ handed' = [handed EXCEPT ![old_b[p]] = @ + 1]
  /\ cbs' = {[c EXCEPT !.wait = @ \ {p}] : c \in cbs}
             \cup {[rec |-> old_b[p], wait |-> GraceSet(p),
                    k |-> handed[old_b[p]] + 1]}
  /\ Did(p, {"handoff"})
  /\ Return(p, 0, "upd_ok")
  /\ UNCHANGED <<listv, bookv, lock, arg, printed, kfreed, retired, nwrites,
                 there>>

\* synchronize_rcu() called before rcu_read_unlock: the writer waits with its
\* own region open.
UpdSynchronizeRcuInRegion(p) ==
  /\ pc[p] = "upd_reclaim"
  /\ arg[p].async = 0
  /\ syncWait' = [syncWait EXCEPT ![p] = GraceSet(p)]
  /\ handed' = [handed EXCEPT ![old_b[p]] = @ + 1]
  /\ Did(p, {"handoff"})
  /\ Goto(p, "upd_sync")
  /\ UNCHANGED <<listv, bookv, lock, reading, cbs, graceOwed, arg, localv,
                 ret, printed, kfreed, retired, path, nwrites, there>>

\* pr_info reads old_b->borrow; rcu_read_unlock; synchronize_rcu() is called
\* (lines 96-99, 104)
UpdSynchronizeRcu(p) ==
  /\ pc[p] = "upd_reclaim"
  /\ arg[p].async = 0
  /\ reading' = [reading EXCEPT ![p] = FALSE]
  /\ syncWait' = [q \in Procs |->
                    IF q = p THEN GraceSet(p) ELSE syncWait[q] \ {p}]
  /\ cbs' = {[c EXCEPT !.wait = @ \ {p}] : c \in cbs}
  /\ graceOwed' = [r \in Recs |-> graceOwed[r] \ {p}]
  /\ handed' = [handed EXCEPT ![old_b[p]] = @ + 1]
  /\ Did(p, {"handoff"})
  /\ Goto(p, "upd_sync")
  /\ UNCHANGED <<listv, bookv, lock, arg, localv, ret, printed, kfreed,
                 retired, path, nwrites, there>>

\* synchronize_rcu() returns; kfree(old_b); return 0 (lines 104-107)
UpdKfree(p) ==
  /\ pc[p] = "upd_sync"
  /\ GraceOver(syncWait[p])
  /\ Kfree(old_b[p])
  /\ Did(p, {"free"})
  /\ Return(p, 0, "upd_ok")
  /\ UNCHANGED <<listv, bookv, lock, rcuv, arg, printed, handed, retired,
                 nwrites, there>>

\* ---------------------------------------------------------- book_is_borrow
ReadArgs(o) == {[NoArg EXCEPT !.op = o, !.id = i] : i \in Ids}

\* rcu_read_lock (line 114)
BibRcuReadLock(p) ==
  \E a \in ReadArgs("is_borrow") :
    /\ Enter(p, a)
    /\ reading' = [reading EXCEPT ![p] = TRUE]
    /\ b' = [b EXCEPT ![p] = ListHead]
    /\ fx' = [fx EXCEPT ![p] = {}]
    /\ there' = [there EXCEPT ![p] = FirstMatch(a.id) # NULL]
    /\ Goto(p, "bib_scan")
    /\ UNCHANGED <<listv, bookv, lock, syncWait, cbs, graceOwed, old_b, new_b,
                   ret, printed, histv, path>>

\* A loop that goes on only while nobody holds the library's lock.
BibScanUnderLock(p) ==
  /\ pc[p] = "bib_scan"
  /\ lock = 0
  /\ LET e == NextEntry(b[p])
     IN /\ e \in Recs
        /\ \E o \in ReadOutcomes({b[p], e}) :
             \/ o = "read" /\ id[e] # arg[p].id
                  /\ b' = [b EXCEPT ![p] = e] /\ Goto(p, pc[p])
             \/ o = "fault" /\ Goto(p, "oops") /\ UNCHANGED b
  /\ UNCHANGED <<listv, bookv, lock, rcuv, arg, old_b, new_b, ret, printed,
                 histv, fx, path, nwrites, there>>

\* The loop goes on to an entry with another id (lines 115-116).
BibScan(p) ==
  /\ pc[p] = "bib_scan"
  /\ LET e == NextEntry(b[p])
     IN /\ e \in Recs
        /\ \E o \in ReadOutcomes({b[p], e}) :
             \/ o = "read" /\ id[e] # arg[p].id
                  /\ b' = [b EXCEPT ![p] = e] /\ Goto(p, pc[p])
             \/ o = "fault" /\ Goto(p, "oops") /\ UNCHANGED b
  /\ UNCHANGED <<listv, bookv, lock, rcuv, arg, old_b, new_b, ret, printed,
                 histv, fx, path, nwrites, there>>

\* The book is found: rcu_read_unlock (lines 116-117).
BibFound(p) ==
  /\ pc[p] = "bib_scan"
  /\ LET e == NextEntry(b[p])
     IN /\ e \in Recs /\ id[e] = arg[p].id
        /\ b' = [b EXCEPT ![p] = e]
  /\ RcuReadUnlock(p)
  /\ Goto(p, "bib_ret")
  /\ UNCHANGED <<listv, bookv, lock, arg, old_b, new_b, ret, printed, histv,
                 fx, path, nwrites, there>>

\* return b->borrow (line 118)
BibReturn(p) ==
  /\ pc[p] = "bib_ret"
  /\ \E v \in ReadBorrow(b[p]) : Return(p, v, "bib_found")
  /\ UNCHANGED <<listv, bookv, lock, rcuv, arg, printed, histv, fx, nwrites,
                 there>>

\* The loop ends at the head: rcu_read_unlock; return -1 (lines 121-125).
BibNotFound(p) ==
  /\ pc[p] = "bib_scan"
  /\ NextEntry(b[p]) = ListHead
  /\ RcuReadUnlock(p)
  /\ Return(p, -1, "bib_notexist")
  /\ UNCHANGED <<listv, bookv, lock, arg, printed, histv, fx, nwrites, there>>

\* -------------------------------------------------------------- print_book
\* rcu_read_lock (line 157)
PrtRcuReadLock(p) ==
  \E a \in ReadArgs("print") :
    /\ Enter(p, a)
    /\ reading' = [reading EXCEPT ![p] = TRUE]
    /\ b' = [b EXCEPT ![p] = ListHead]
    /\ fx' = [fx EXCEPT ![p] = {}]
    /\ printed' = [printed EXCEPT ![p] = <<>>]
    /\ there' = [there EXCEPT ![p] = FirstMatch(a.id) # NULL]
    /\ Goto(p, "prt_scan")
    /\ UNCHANGED <<listv, bookv, lock, syncWait, cbs, graceOwed, old_b, new_b,
                   ret, histv, path>>

\* The loop goes on to an entry with another id (lines 158-159).
PrtScan(p) ==
  /\ pc[p] = "prt_scan"
  /\ LET e == NextEntry(b[p])
     IN /\ e \in Recs
        /\ \E o \in ReadOutcomes({b[p], e}) :
             \/ o = "read" /\ id[e] # arg[p].id
                  /\ b' = [b EXCEPT ![p] = e] /\ Goto(p, pc[p])
             \/ o = "fault" /\ Goto(p, "oops") /\ UNCHANGED b
  /\ UNCHANGED <<listv, bookv, lock, rcuv, arg, old_b, new_b, ret, printed,
                 histv, fx, path, nwrites, there>>

\* The book is found: pr_info its fields, rcu_read_unlock, return
\* (lines 159-163).
PrtFound(p) ==
  /\ pc[p] = "prt_scan"
  /\ LET e == NextEntry(b[p])
     IN /\ e \in Recs /\ id[e] = arg[p].id
        /\ \E v \in ReadBorrow(e) :
             printed' = [printed EXCEPT ![p] = <<id[e], name[e], author[e], v>>]
  /\ RcuReadUnlock(p)
  /\ Return(p, 0, "prt_found")
  /\ UNCHANGED <<listv, bookv, lock, arg, histv, fx, nwrites, there>>

\* The loop ends at the head (lines 166-168).
PrtNotFound(p) ==
  /\ pc[p] = "prt_scan"
  /\ NextEntry(b[p]) = ListHead
  /\ RcuReadUnlock(p)
  /\ Return(p, 0, "prt_notexist")
  /\ UNCHANGED <<listv, bookv, lock, arg, printed, histv, fx, nwrites, there>>

\* ------------------------------------------------------------- delete_book
DeleteArgs == {[NoArg EXCEPT !.op = "delete", !.id = i, !.async = a] :
                 i \in Ids, a \in {0, 1}}

DelEnter(p) ==
  \E a \in DeleteArgs :
    /\ Enter(p, a)
    /\ fx' = [fx EXCEPT ![p] = {}]
    /\ Goto(p, "del_lock")
    /\ UNCHANGED <<listv, bookv, lock, rcuv, localv, ret, printed, histv, path,
                   there>>

\* spin_lock (line 132)
DelSpinLock(p) ==
  /\ pc[p] = "del_lock"
  /\ SpinLock(p)
  /\ Goto(p, "del_scan")
  /\ UNCHANGED <<listv, bookv, rcuv, arg, localv, ret, printed, histv, fx,
                 path, nwrites, there>>

\* The loop, run under the lock, finds the book: list_del_rcu; spin_unlock
\* (lines 133-136).
DelListDelRcu(p) ==
  /\ pc[p] = "del_scan"
  /\ LET e == FirstMatch(arg[p].id)
     IN /\ e # NULL
        /\ b' = [b EXCEPT ![p] = e]
        /\ \E goOn \in StoreOutcomes(e) :
             LET l == ListDelRcu(e, goOn)
             IN /\ next' = l.nx
                /\ prev' = l.pv
                /\ IF l.fault
                     THEN /\ Goto(p, "oops")
                          /\ UNCHANGED <<lock, retired, graceOwed, fx, there>>
                     ELSE /\ Goto(p, "del_reclaim")
                          /\ SpinUnlock(p)
                          /\ Retire(e)
                          /\ Did(p, {"link", "retire"})
                          /\ there' = [q \in Procs |->
                                         there[q] /\ arg[q].id # arg[p].id]
  /\ UNCHANGED <<bookv, reading, syncWait, cbs, arg, old_b, new_b, ret,
                 printed, handed, kfreed, path, nwrites>>

\* The loop ends at the head: spin_unlock; return -1 (lines 148-150).
DelNotFound(p) ==
  /\ pc[p] = "del_scan"
  /\ FirstMatch(arg[p].id) = NULL
  /\ SpinUnlock(p)
  /\ Return(p, -1, "del_notfound")
  /\ UNCHANGED <<listv, bookv, rcuv, arg, printed, histv, fx, nwrites, there>>

\* call_rcu that returns only when no other region is open.
DelCallRcuWaits(p) ==
  /\ pc[p] = "del_reclaim"
  /\ arg[p].async # 0
  /\ GraceOver(GraceSet(p))
  /\ CallRcu(p, b[p])
  /\ Did(p, {"handoff"})
  /\ Return(p, 0, "del_ok")
  /\ UNCHANGED <<listv, bookv, lock, reading, syncWait, graceOwed, arg,
                 printed, kfreed, retired, nwrites, there>>

\* call_rcu(&b->rcu, book_reclaim_callback); return 0 (lines 138-139, 145)
DelCallRcu(p) ==
  /\ pc[p] = "del_reclaim"
  /\ arg[p].async # 0
  /\ CallRcu(p, b[p])
  /\ Did(p, {"handoff"})
  /\ Return(p, 0, "del_ok")
  /\ UNCHANGED <<listv, bookv, lock, reading, syncWait, graceOwed, arg,
                 printed, kfreed, retired, nwrites, there>>

\* synchronize_rcu() is called (line 141)
DelSynchronizeRcu(p) ==
  /\ pc[p] = "del_reclaim"
  /\ arg[p].async = 0
  /\ handed' = [handed EXCEPT ![b[p]] = @ + 1]
  /\ syncWait' = [syncWait EXCEPT ![p] = GraceSet(p)]
  /\ Did(p, {"handoff"})
  /\ Goto(p, "del_sync")
  /\ UNCHANGED <<listv, bookv, lock, reading, cbs, graceOwed, arg, localv,
                 ret, printed, kfreed, retired, path, nwrites, there>>

\* synchronize_rcu() returns; kfree(b); return 0 (lines 141-145)
DelKfree(p) ==
  /\ pc[p] = "del_sync"
  /\ GraceOver(syncWait[p])
  /\ Kfree(b[p])
  /\ Did(p, {"free"})
  /\ Return(p, 0, "del_ok")
  /\ UNCHANGED <<listv, bookv, lock, rcuv, arg, printed, handed, retired,
                 nwrites, there>>

\* ------------------------------------------------------------ the system
Next ==
  \/ \E p \in Procs :
       \/ AddKzalloc(p) \/ AddKzallocFail(p) \/ AddSpinLock(p)
       \/ AddListAddRcu(p)
       \/ UpdRcuReadLock(p) \/ UpdScan(p) \/ UpdNotFound(p) \/ UpdNoOp(p)
       \/ UpdFound(p) \/ UpdKzalloc(p) \/ UpdKzallocFail(p) \/ UpdSpinLock(p)
       \/ UpdListReplaceRcu(p)
       \/ UpdCallRcu(p) \/ UpdSynchronizeRcu(p) \/ UpdKfree(p)
       \/ BibRcuReadLock(p) \/ BibScan(p) \/ BibFound(p) \/ BibReturn(p)
       \/ BibNotFound(p)
       \/ PrtRcuReadLock(p) \/ PrtScan(p) \/ PrtFound(p) \/ PrtNotFound(p)
       \/ DelEnter(p) \/ DelSpinLock(p) \/ DelListDelRcu(p) \/ DelNotFound(p)
       \/ DelCallRcu(p) \/ DelSynchronizeRcu(p)
       \/ DelKfree(p)
       \/ Leave(p)
  \/ BookReclaimCallback

Spec == Init /\ [][Next]_vars

\* The same calls made on the library test_example has stocked.
StockedSpec == StockedInit /\ [][Next]_vars

\* The steps of a call that is under way (a caller need not call again).
Running(p) ==
  \/ AddSpinLock(p) \/ AddListAddRcu(p)
  \/ UpdScan(p) \/ UpdNotFound(p) \/ UpdNoOp(p) \/ UpdFound(p)
  \/ UpdKzalloc(p) \/ UpdKzallocFail(p) \/ UpdSpinLock(p)
  \/ UpdListReplaceRcu(p)
  \/ UpdCallRcu(p) \/ UpdSynchronizeRcu(p) \/ UpdKfree(p)
  \/ BibScan(p) \/ BibFound(p) \/ BibReturn(p) \/ BibNotFound(p)
  \/ PrtScan(p) \/ PrtFound(p) \/ PrtNotFound(p)
  \/ DelSpinLock(p) \/ DelListDelRcu(p) \/ DelNotFound(p)
  \/ DelCallRcu(p) \/ DelSynchronizeRcu(p) \/ DelKfree(p)
  \/ Leave(p)

\* The scheduler runs every thread that can run, and the RCU core runs every
\* callback whose grace period is over.
FairSpec ==
  /\ Init /\ [][Next]_vars
  /\ \A p \in Procs : WF_vars(Running(p))
  /\ WF_vars(BookReclaimCallback)



\* ================================================================ claims
AtReturn(p, how) == pc[p] = "ret" /\ path[p] = how

C2_FreedOnce ==
  \A r \in Recs : handed[r] <= 1 /\ kfreed[r] <= 1

\* C3: at most one published book has a given id.
C3_UniqueId ==
  \A i, j \in 1..Len(Order) : id[Order[i]] = id[Order[j]] => i = j

\* C4: an update that holds the lock and is about to splice replaces a book
\* that is still published, never one that is already retired.
C4_SpliceOnPublished ==
  \A p \in Procs : pc[p] = "upd_replace" => old_b[p] \in Published

\* C5: update(id, s) on a book already in state s returns the NoOp error and
\* has allocated, spliced, retired, handed over and freed nothing; and an
\* update goes on past the comparison only when the state differs.
C5_NoOpDoesNothing ==
  \A p \in Procs :
    /\ AtReturn(p, "upd_noop") =>
         fx[p] = {} /\ ret[p] = -EINVAL /\ ~reading[p] /\ lock # p
    /\ pc[p] \in {"upd_alloc", "upd_lock", "upd_replace", "upd_reclaim", "upd_sync"}
         => borrow[old_b[p]] # arg[p].borrow

C5_Witness ==
  \E p \in Procs :
    /\ AtReturn(p, "upd_noop")
    /\ \E r \in Published : id[r] = arg[p].id /\ borrow[r] = arg[p].borrow

\* C6: the values update returns for its outcomes (success, NotFound, NoOp,
\* AllocationFailure) differ from one another.
UpdatePaths == {"upd_ok", "upd_notfound", "upd_noop", "upd_enomem"}

C6_DistinctResults ==
  \A p, q \in Procs :
    (/\ pc[p] = "ret" /\ pc[q] = "ret"
     /\ path[p] \in UpdatePaths /\ path[q] \in UpdatePaths
     /\ path[p] # path[q])
    => ret[p] # ret[q]

\* C7: a mutator that fails (insert with -ENOMEM; update with NotFound, NoOp
\* or -ENOMEM; delete with NotFound) has changed nothing shared, holds neither
\* the lock nor an open region when it returns, and allocated nothing.
FailPaths == {"add_enomem", "upd_notfound", "upd_noop", "upd_enomem", "del_notfound"}

C7_FailureLeavesNoTrace ==
  \A p \in Procs :
    (pc[p] = "ret" /\ path[p] \in FailPaths)
    => fx[p] = {} /\ ~reading[p] /\ lock # p /\ ret[p] < 0

C7_Witness ==
  \E p, q \in Procs :
    /\ AtReturn(p, "upd_enomem")
    /\ AtReturn(q, "del_notfound")
    /\ Order # <<>>

\* C8: when one thread runs insert(id), then update(id, s) that succeeds or
\* reports NoOp, then the status query of id, and no other thread takes a step
\* of a writer in between, the query returns s.
C8_NoLostUpdate ==
  solo.stage = 5 =>
    AtReturn(solo.who, "bib_found") /\ ret[solo.who] = solo.s

\* The query has returned after an update that changed the state, while the
\* book it replaced is still waiting for its grace period or has been freed.
C8_Witness ==
  /\ solo.stage = 5
  /\ solo.s = 0
  /\ \E r \in Recs : retired[r] /\ id[r] = solo.id

\* C9 (as amended): a successful insert puts the new book at the head of the
\* traversal order: it is the first book a traversal visits, and the books
\* published before follow it in their old order.
AddLinks(p) == pc[p] = "add_link" /\ pc'[p] = "ret"

C10_UpdateKeepsPosition ==
  [][\A p \in Procs :
       (pc[p] = "upd_replace" /\ pc'[p] = "upd_reclaim")
       => /\ \E k \in 1..Len(Order) :
               /\ Order[k] = old_b[p]
               /\ Order' = [Order EXCEPT ![k] = new_b[p]]
          /\ id[new_b[p]] = id[old_b[p]]
          /\ name[new_b[p]] = name[old_b[p]]
          /\ author[new_b[p]] = author[old_b[p]]
          /\ borrow[new_b[p]] = arg[p].borrow]_vars

\* C11: a delete that unlinks a book leaves no book with that id published
\* (so a later status query or describe of the id reports NotExist until the
\* id is inserted again), and the books with other ids stay published in
\* their old relative order. The fields of a published book are never
\* written, so they stay as they were.
DelUnlinks(p) == pc[p] = "del_scan" /\ pc'[p] = "del_reclaim"

OtherIds(s, i) == SelectSeq(s, LAMBDA r : id[r] # i)

C11_DeleteFrame ==
  [][\A p \in Procs :
       DelUnlinks(p) => Order' = OtherIds(Order, arg[p].id)]_vars

\* C12: a status query, a describe call and the scan of update never hold the
\* lock and never wait: wherever the reader stands, one of its own steps can
\* be taken whoever holds the lock and whoever waits in synchronize_rcu, and
\* the entries still ahead of its cursor lead back to the head within as many
\* hops as there are books, so the steps it has left are bounded.
ReaderPcs == {"bib_scan", "bib_ret", "prt_scan", "upd_scan"}

ReaderStep(p) ==
  \/ BibScan(p) \/ BibFound(p) \/ BibNotFound(p) \/ BibReturn(p)
  \/ PrtScan(p) \/ PrtFound(p) \/ PrtNotFound(p)
  \/ UpdScan(p) \/ UpdNotFound(p) \/ UpdNoOp(p) \/ UpdFound(p)

RECURSIVE LeadsToHead(_, _)
LeadsToHead(n, fuel) ==
  \/ n = ListHead
  \/ n \in Recs /\ fuel > 0 /\ LeadsToHead(next[n], fuel - 1)

C12_ReadersNeverWait ==
  \A p \in Procs :
    pc[p] \in ReaderPcs =>
      /\ lock # p
      /\ ENABLED ReaderStep(p)
      /\ pc[p] # "bib_ret" => LeadsToHead(next[b[p]], MaxWrites)

\* A query stands in the middle of the list while a writer that faulted in
\* its splice keeps the lock for good.
C12_Witness ==
  \E p, q \in Procs :
    /\ pc[p] = "bib_scan" /\ b[p] \in Recs
    /\ lock = q /\ pc[q] = "oops"

\* C13: a writer that chose call_rcu returns with its next step whatever
\* regions are open; every callback whose grace period is over can be run
\* whatever other callbacks are pending; and every retired book is freed in
\* the end, unless a thread has faulted inside its region (then the regions
\* never all close).
Faulted == \E p \in Procs : pc[p] = "oops" /\ reading[p]

DeferredReturns ==
  \A p \in Procs :
    (pc[p] \in {"upd_reclaim", "del_reclaim"} /\ arg[p].async # 0)
    => ENABLED ((UpdCallRcu(p) \/ DelCallRcu(p)) /\ pc'[p] = "ret")

ReclaimedInAnyOrder ==
  \A c \in cbs :
    c.wait = {} => ENABLED (BookReclaimCallback /\ cbs' = cbs \ {c})

C13_DeferredReclaim ==
  /\ [](DeferredReturns /\ ReclaimedInAnyOrder)
  /\ \A r \in Recs : retired[r] ~> (kfreed[r] > 0 \/ Faulted)

\* Two books wait for their callbacks, the grace period of each is over, and
\* a region is open that was opened after both were handed over.
C13_Witness ==
  /\ \E c, d \in cbs : c.rec # d.rec /\ c.wait = {} /\ d.wait = {}
  /\ Readers # {}
  /\ ~Faulted

\* C14: a status query or a describe call of an id that was published when
\* its region opened, and that no delete has unlinked since, does not report
\* NotExist, and the state it reports is the state of a book (0 or 1), not
\* what is left of a freed one.
States == {0, 1}

C14_ReaderSeesBook ==
  \A p \in Procs :
    (pc[p] = "ret" /\ there[p]) =>
      /\ path[p] \in {"bib_found", "prt_found"}
      /\ path[p] = "bib_found" => ret[p] \in States
      /\ path[p] = "prt_found" => printed[p][4] \in States

\* C15: when the status query reads the state of the book it found (the read
\* that gives its return value), its region is still open and the book has
\* not been freed.
C15_ReadInsideRegion ==
  \A p \in Procs :
    pc[p] = "bib_ret" => reading[p] /\ kfreed[b[p]] = 0

\* C16: a thread that stands at list_add_rcu, at list_replace_rcu or in
\* delete's loop holds the lock (so at most one thread does); the links of
\* the head and of every book allocated before are written only in a step of
\* the thread that holds the lock (memcpy fills the links of the copy as it
\* is allocated); and a writer that has returned does not hold the lock.
InLinkage == {"add_link", "upd_replace", "del_scan"}

LinkageUnderLock ==
  /\ \A p \in Procs : pc[p] \in InLinkage => lock = p
  /\ \A p, q \in Procs : pc[p] \in InLinkage /\ pc[q] \in InLinkage => p = q
  /\ \A p \in Procs : pc[p] \in {"ret", "idle"} => lock # p

C16_WritersExcluded ==
  /\ []LinkageUnderLock
  /\ [][\A n \in Nodes :
          (n <= nalloc /\ (next'[n] # next[n] \/ prev'[n] # prev[n]))
          => \E p \in Procs :
               lock = p /\ pc[p] \in InLinkage /\ pc'[p] # pc[p]]_vars

\* One writer stands at its splice with the lock while the other, with its
\* book allocated, waits for the lock.
C16_Witness ==
  \E p, q \in Procs :
    /\ pc[p] = "upd_replace" /\ lock = p
    /\ pc[q] \in {"add_lock", "upd_lock"} /\ new_b[q] \in Recs

\* C17: a writer that waits in synchronize_rcu holds neither the lock nor an
\* open region and no grace period waits for it; every other thread that is
\* inside a call (and has not faulted) can take a step, and a thread that is
\* idle can open a region, and can start a writer while calls are left.
InSync(p) == pc[p] \in {"upd_sync", "del_sync"}

C17_OnlyTheWaiterWaits ==
  \A p \in Procs :
    InSync(p) =>
      /\ lock # p
      /\ ~reading[p]
      /\ \A q \in Procs : p \notin syncWait[q]
      /\ \A c \in cbs : p \notin c.wait
      /\ \A q \in Procs \ {p} :
           /\ pc[q] \notin {"idle", "oops"} => ENABLED Running(q)
           /\ pc[q] = "idle" =>
                /\ ENABLED BibRcuReadLock(q)
                /\ nwrites < MaxWrites =>
                     /\ ENABLED AddKzalloc(q)
                     /\ ENABLED UpdRcuReadLock(q)
                     /\ ENABLED DelEnter(q)

\* A writer waits in synchronize_rcu for the region of a reader, and the
\* reader is in the middle of the list.
C17_Witness ==
  \E p, q \in Procs :
    /\ InSync(p) /\ q \in syncWait[p]
    /\ pc[q] \in {"bib_scan", "prt_scan"} /\ b[q] \in Recs

\* C18: no book that was given to the reclaimer (call_rcu, or synchronize_rcu
\* and kfree) or freed is reached by following the links from the head.
C18_RetiredUnreachable ==
  \A r \in Published : handed[r] = 0 /\ kfreed[r] = 0

\* C19: under fair scheduling every call that is under way comes to its
\* return statement, unless the call itself has faulted.
C19_EveryCallReturns ==
  \A p \in Procs :
    (pc[p] \notin {"idle", "oops"}) ~> (pc[p] \in {"ret", "oops"})

\* C20: every book kzalloc has handed out is still private to the writer that
\* is building it, or is reached from the head, or has been retired (unlinked
\* and on its way to the reclaimer), or has been freed.
Building == {"add_lock", "add_link", "upd_lock", "upd_replace"}

Private(r) == \E p \in Procs : pc[p] \in Building /\ new_b[p] = r

C20_NoOrphan ==
  \A r \in Recs :
    r <= nalloc =>
      Private(r) \/ r \in Published \/ retired[r] \/ kfreed[r] > 0

=============================================================================
